---- MODULE Spec2Model ----
(***************************************************************************)
(* Model of src/src/xjfx.py: the process launchers exec_cmd and            *)
(* exec_cmd_async, the line drain _iterate_proc_output, the result record  *)
(* ProcData and the reporter _display_proc_result, together with the child *)
(* process and the OS pipes they talk to.                                  *)
(*                                                                         *)
(* One behaviour is one launch configuration handed to both launchers by   *)
(* a single-threaded caller: first exec_cmd_async, which has no await and  *)
(* so runs to its end without yielding, then exec_cmd.  The two calls      *)
(* share nothing but the configuration.  exec_cmd owns a child and three   *)
(* pipes; exec_cmd_async has its own record and log.  Bytes are integers   *)
(* 0..255, text is a sequence of code points.                              *)
(***************************************************************************)
EXTENDS Integers, Sequences, FiniteSets, TLC

(* ---------------- bounds ---------------- *)
\* capacity of one OS pipe buffer, in bytes
PipeCap == 1
\* number of bytes a scripted child writes in total
MaxProg == 2

(* ---------------- values of the standard library ---------------- *)
\* subprocess.PIPE / STDOUT / DEVNULL are the non-zero ints -1, -2, -3 and
\* None is None; only their identity and truthiness are used by the code.
PIPE == "PIPE"
STDOUT == "STDOUT"
DEVNULL == "DEVNULL"
None == "None"

\* Python truthiness of a stream argument (`if stdout:`): None is false,
\* every one of the three subprocess constants is a non-zero int, hence true.
Truthy(x) == x # None

DEBUG == 10
INFO == 20
ERROR == 40

\* bytes a child may write: "\n", "a" and 0xFF (never valid in UTF-8)
Bytes == {10, 97, 255}
ExitCodes == {0, 7}
\* the `input` argument: <<>> is None, <<b>> is the bytes object b
NoInput == <<>>
Inputs == {NoInput, << <<97>> >>, << <<97, 10, 97>> >>}
Streams == {"out", "err"}

(* ---------------- bytes and text ---------------- *)
RECURSIVE Utf8Decode(_)
\* bytes.decode(): the code points of a UTF-8 byte string, or <<-1>> in
\* front of the result when some byte sequence is not valid UTF-8.
Utf8Decode(bs) ==
    IF bs = <<>> THEN <<>>
    ELSE LET b == Head(bs) IN
         IF b < 128
         THEN LET r == Utf8Decode(Tail(bs)) IN
              IF r # <<>> /\ Head(r) = -1 THEN r ELSE <<b>> \o r
         ELSE IF b >= 194 /\ b <= 223 /\ Len(bs) >= 2 /\ bs[2] >= 128 /\ bs[2] <= 191
         THEN LET r == Utf8Decode(Tail(Tail(bs))) IN
              IF r # <<>> /\ Head(r) = -1 THEN r
              ELSE <<(b - 192) * 64 + (bs[2] - 128)>> \o r
         ELSE <<-1>>

DecodeFails(bs) == LET r == Utf8Decode(bs) IN r # <<>> /\ Head(r) = -1

IsSpace(c) == c \in {9, 10, 11, 12, 13, 32}

RECURSIVE LStrip(_)
LStrip(t) == IF t # <<>> /\ IsSpace(Head(t)) THEN LStrip(Tail(t)) ELSE t

RECURSIVE RStrip(_)
RStrip(t) ==
    IF t # <<>> /\ IsSpace(t[Len(t)]) THEN RStrip(SubSeq(t, 1, Len(t) - 1)) ELSE t

\* str.strip()
Strip(t) == RStrip(LStrip(t))

RECURSIVE FirstNewline(_, _)
\* index of the first "\n" of bs at or after i, 0 when there is none
FirstNewline(bs, i) ==
    IF i > Len(bs) THEN 0
    ELSE IF bs[i] = 10 THEN i ELSE FirstNewline(bs, i + 1)

RECURSIVE CompleteLines(_)
\* the newline-terminated lines at the front of bs, in order
CompleteLines(bs) ==
    LET k == FirstNewline(bs, 1) IN
    IF k = 0 THEN <<>>
    ELSE <<SubSeq(bs, 1, k)>> \o CompleteLines(SubSeq(bs, k + 1, Len(bs)))

RECURSIVE Fragment(_)
\* what is left of bs after its newline-terminated lines
Fragment(bs) ==
    LET k == FirstNewline(bs, 1) IN
    IF k = 0 THEN bs ELSE Fragment(SubSeq(bs, k + 1, Len(bs)))

RECURSIVE Concat(_)
Concat(ls) == IF ls = <<>> THEN <<>> ELSE Head(ls) \o Concat(Tail(ls))

RECURSIVE FirstBad(_, _)
\* index of the first line of ls that does not decode, 0 when all decode
FirstBad(ls, i) ==
    IF i > Len(ls) THEN 0
    ELSE IF DecodeFails(ls[i]) THEN i ELSE FirstBad(ls, i + 1)

RECURSIVE SeqsUpTo(_, _)
SeqsUpTo(S, n) ==
    IF n = 0 THEN {<<>>}
    ELSE LET P == SeqsUpTo(S, n - 1) IN
         P \cup {Append(p, x) : p \in {q \in P : Len(q) = n - 1}, x \in S}

Writes == [stream : Streams, byte : Bytes]

(* ---------------- state ---------------- *)
VARIABLES
    \* the launch configuration (arguments of exec_cmd / exec_cmd_async)
    input, stdout, stderr, ignore_retcode, decode_output,
    \* LOGGER.getEffectiveLevel()
    level,
    \* the command: "script" writes prog and exits, "cat" echoes stdin to
    \* stdout, "missing" is an executable that cannot be started
    kind, prog,
    \* exec_cmd: position, pending exception, ProcData, log, drain state
    pc, exc, proc_data, log, accumulated_output, line_buf, drains, inpos,
    retcode_writes,
    \* the pipes of exec_cmd's Popen, "in" / "out" / "err": buffered bytes, and
    \* whether the launcher's end is still open
    pipes,
    \* the child of exec_cmd: its state, what it wrote, what cat holds
    child, hist, held,
    \* exec_cmd_async: position, exception, ProcData, log, value of proc_desc
    apc, aexc, aproc_data, alog, aproc_desc,
    \* the functions checked on their own, each in its own specification:
    \* the two line drains on one stream, grouper, the ProcData setters,
    \* thr_exec
    drn, grp, setr, thr

cfgvars == <<input, stdout, stderr, ignore_retcode, decode_output, level, kind, prog>>
syncvars == <<pc, exc, proc_data, log, accumulated_output, line_buf, drains, inpos,
              retcode_writes>>
childvars == <<child, hist, held>>
asyncvars == <<apc, aexc, aproc_data, alog, aproc_desc>>
auxvars == <<drn, grp, setr, thr>>
launchvars == <<cfgvars, syncvars, pipes, childvars, asyncvars>>
vars == <<launchvars, auxvars>>

\* ProcData.__init__
ProcData_init == [_stdout |-> <<>>, _stderr |-> <<>>, retcode |-> 0]

NoPipe == [exists |-> FALSE, buf |-> <<>>, open |-> FALSE]
NewPipe == [exists |-> TRUE, buf |-> <<>>, open |-> TRUE]
NoChild == [st |-> "none", code |-> 0, reaped |-> FALSE]

\* the state of the separately checked functions while a launch is modelled
AuxIdle == drn = <<>> /\ grp = <<>> /\ setr = <<>> /\ thr = <<>>

\* the state of the launchers while another function is modelled
LaunchIdle ==
    /\ input = NoInput /\ stdout = None /\ stderr = None
    /\ ignore_retcode = FALSE /\ decode_output = FALSE /\ level = DEBUG
    /\ kind = "script" /\ prog = <<>>
    /\ pc = "idle" /\ exc = "none"
    /\ proc_data = ProcData_init
    /\ log = <<>>
    /\ accumulated_output = <<>> /\ line_buf = <<>>
    /\ drains = {} /\ inpos = 0 /\ retcode_writes = 0
    /\ pipes = [s \in {"in", "out", "err"} |-> NoPipe]
    /\ child = NoChild /\ hist = <<>> /\ held = <<>>
    /\ apc = "idle" /\ aexc = "none"
    /\ aproc_data = ProcData_init
    /\ alog = <<>> /\ aproc_desc = "unset"

Init ==
    /\ AuxIdle
    /\ input \in Inputs
    /\ stdout \in {PIPE, DEVNULL, None}
    /\ stderr \in {PIPE, DEVNULL, None, STDOUT}
    /\ ignore_retcode \in BOOLEAN
    /\ decode_output \in BOOLEAN
    /\ level \in {DEBUG, INFO}
    /\ kind \in {"script", "cat", "missing"}
    /\ prog \in SeqsUpTo(Writes, MaxProg)
    /\ kind = "cat" => input # NoInput /\ prog = <<>>
    /\ kind = "missing" => prog = <<>>
    /\ pc = "start" /\ exc = "none"
    /\ proc_data = ProcData_init
    /\ log = <<>>
    /\ accumulated_output = <<>> /\ line_buf = <<>>
    /\ drains = {} /\ inpos = 0 /\ retcode_writes = 0
    /\ pipes = [s \in {"in", "out", "err"} |-> NoPipe]
    /\ child = NoChild /\ hist = <<>> /\ held = <<>>
    /\ apc = "start" /\ aexc = "none"
    /\ aproc_data = ProcData_init
    /\ alog = <<>> /\ aproc_desc = "unset"

(* ---------------- logging ---------------- *)
\* Logger.debug / Logger.error: the call is recorded with its level
LogEvent(lg, ev) == Append(lg, ev)

\* Logger.isEnabledFor: the records of lg the logger lets through at the
\* effective level
Emitted(lg) == SelectSeq(lg, LAMBDA ev : ev.lvl >= level)

\* LOGGER.debug(*_fmt_proc_cmd(args))
CmdEvent ==
    [lvl |-> DEBUG, kind |-> "executing", cls |-> "-", ty |-> "-", val |-> <<>>, code |-> 0]

\* LOGGER.debug(*_fmt_proc_output(stream_class, line)): the classifier name
\* and line.strip()
LineEvent(cls, line) ==
    [lvl |-> DEBUG, kind |-> "line", cls |-> cls, ty |-> "str", val |-> Strip(line), code |-> 0]

RECURSIVE LogLines(_, _, _)
\* the loop body's logging for the raw lines ls, in order
LogLines(lg, cls, ls) ==
    IF ls = <<>> THEN lg
    ELSE LogLines(LogEvent(lg, LineEvent(cls, Utf8Decode(Head(ls)))), cls, Tail(ls))

(* ---------------- ProcData ---------------- *)
\* ProcData.stdout / ProcData.stderr setters
ProcData_set(pd, which, lines) ==
    IF which = "out" THEN [pd EXCEPT !._stdout = lines] ELSE [pd EXCEPT !._stderr = lines]

\* ProcData.stdout / ProcData.stderr getters: [ty, val], ty "error" when
\* decoding raises
ProcData_get(pd, which) ==
    LET raw == IF which = "out" THEN pd._stdout ELSE pd._stderr IN
    IF decode_output
    THEN IF DecodeFails(raw) THEN [ty |-> "error", val |-> <<>>]
         ELSE [ty |-> "str", val |-> Utf8Decode(raw)]
    ELSE [ty |-> "bytes", val |-> raw]

(* ---------------- _display_proc_result ---------------- *)
\* Reports without the test of ignore_retcode
Reports_NoIgnore(pd) == pd.retcode # 0

\* `if not ignore_retcode and proc_data.retcode != 0:`
Reports(pd) == ~ignore_retcode /\ pd.retcode # 0

\* the reporter raises when it reads a decoded view that does not decode
ReporterRaises(pd) ==
    /\ Reports(pd) /\ level > DEBUG
    /\ \/ ProcData_get(pd, "out").ty = "error"
       \/ ProcData_get(pd, "err").ty = "error"

AggEvent(which, v) ==
    [lvl |-> ERROR, kind |-> "aggregate", cls |-> which, ty |-> v.ty, val |-> v.val, code |-> 0]

\* display_proc_result logging the aggregates at every verbosity
display_proc_result_AnyLevel(lg, pd) ==
    IF Reports(pd)
    THEN LET l1 == LogEvent(lg, [lvl |-> ERROR, kind |-> "returned", cls |-> "-",
                                 ty |-> "-", val |-> <<>>, code |-> pd.retcode])
             so == ProcData_get(pd, "out")
             se == ProcData_get(pd, "err")
             l2 == IF so.val # <<>> THEN LogEvent(l1, AggEvent("stdout", so)) ELSE l1
         IN IF se.val # <<>> THEN LogEvent(l2, AggEvent("stderr", se)) ELSE l2
    ELSE lg

\* the log after _display_proc_result(args, ignore_retcode, pd)
display_proc_result(lg, pd) ==
    IF Reports(pd)
    THEN LET l1 == LogEvent(lg, [lvl |-> ERROR, kind |-> "returned", cls |-> "-",
                                 ty |-> "-", val |-> <<>>, code |-> pd.retcode])
             so == ProcData_get(pd, "out")
             se == ProcData_get(pd, "err")
             l2 == IF so.val # <<>> THEN LogEvent(l1, AggEvent("stdout", so)) ELSE l1
             l3 == IF se.val # <<>> THEN LogEvent(l2, AggEvent("stderr", se)) ELSE l2
         IN IF level > DEBUG THEN l3 ELSE l1
    ELSE lg

(* ---------------- the child process and its pipes ---------------- *)
\* where the child's descriptor for `stream` leads under the capture policy
Target(stream) ==
    LET out == IF stdout = PIPE THEN "out" ELSE IF stdout = DEVNULL THEN "null" ELSE "tty"
    IN IF stream = "out" THEN out
       ELSE IF stderr = PIPE THEN "err"
       ELSE IF stderr = STDOUT THEN out
       ELSE IF stderr = DEVNULL THEN "null" ELSE "tty"

Running == child.st = "running"

\* the next write of the child, <<>> when it has none
NextWrite ==
    IF ~Running THEN <<>>
    ELSE IF kind = "script"
    THEN IF Len(hist) < Len(prog) THEN <<prog[Len(hist) + 1]>> ELSE <<>>
    ELSE IF held # <<>> THEN <<[stream |-> "out", byte |-> held[1]]>> ELSE <<>>

\* the child is blocked in write(2) on the full pipe s
ChildBlockedOn(s) ==
    /\ NextWrite # <<>>
    /\ Target(NextWrite[1].stream) = s
    /\ pipes[s].open /\ Len(pipes[s].buf) >= PipeCap

\* the child's write(2) of one byte: into the pipe when it has room, killed
\* by SIGPIPE when the launcher closed its end, nowhere for /dev/null and for
\* an inherited descriptor
ChildWrite ==
    /\ NextWrite # <<>>
    /\ LET w == NextWrite[1]
           t == Target(w.stream)
       IN IF t \in {"out", "err"}
          THEN IF ~pipes[t].open
               THEN /\ child' = [child EXCEPT !.st = "exited", !.code = -13]
                    /\ UNCHANGED <<pipes, hist>>
               ELSE /\ Len(pipes[t].buf) < PipeCap
                    /\ pipes' = [pipes EXCEPT ![t].buf = Append(@, w.byte)]
                    /\ hist' = Append(hist, w)
                    /\ UNCHANGED child
          ELSE /\ hist' = Append(hist, w)
               /\ UNCHANGED <<pipes, child>>
    /\ held' = <<>>
    /\ UNCHANGED <<auxvars, cfgvars, syncvars, asyncvars>>

\* the scripted child has written everything and exits with some status
ChildExit ==
    /\ Running /\ kind = "script" /\ Len(hist) = Len(prog)
    /\ \E c \in ExitCodes : child' = [child EXCEPT !.st = "exited", !.code = c]
    /\ UNCHANGED <<auxvars, cfgvars, syncvars, pipes, hist, held, asyncvars>>

\* cat: read(2) one byte of standard input
CatRead ==
    /\ Running /\ kind = "cat" /\ held = <<>>
    /\ pipes["in"].buf # <<>>
    /\ held' = <<Head(pipes["in"].buf)>>
    /\ pipes' = [pipes EXCEPT !["in"].buf = Tail(@)]
    /\ UNCHANGED <<auxvars, cfgvars, syncvars, child, hist, asyncvars>>

\* cat: read(2) returns end-of-file once the launcher closed stdin; exit 0
CatEof ==
    /\ Running /\ kind = "cat" /\ held = <<>>
    /\ pipes["in"].buf = <<>> /\ ~pipes["in"].open
    /\ child' = [child EXCEPT !.st = "exited", !.code = 0]
    /\ UNCHANGED <<auxvars, cfgvars, syncvars, pipes, hist, held, asyncvars>>

\* cat is blocked in read(2): no input buffered, and stdin still open
ChildAwaitsInput ==
    /\ Running /\ kind = "cat" /\ held = <<>>
    /\ pipes["in"].buf = <<>> /\ pipes["in"].open

(* ---------------- exec_cmd ---------------- *)
\* StdoutClass without the test for a merged stderr
StdoutClass_NoMerge == "STDOUT"

\* the classifier of the stdout drain
StdoutClass == IF stderr = STDOUT THEN "OUTPUT" ELSE "STDOUT"

\* `if stderr and stderr != STDOUT:`
DrainsStderr == Truthy(stderr) /\ stderr # STDOUT

\* `if stdout:`
DrainsStdout == Truthy(stdout)

AfterStdout == IF DrainsStderr THEN "stderr" ELSE "exit"
AfterInput == IF DrainsStdout THEN "stdout" ELSE AfterStdout

\* S_Begin without the LOGGER.debug call
S_Begin_NoLog ==
    /\ pc = "start" /\ apc # "start"
    /\ proc_data' = ProcData_init
    /\ pc' = "spawn"
    /\ UNCHANGED <<auxvars, cfgvars, exc, log, accumulated_output, line_buf, drains, inpos,
                   retcode_writes, pipes, childvars, asyncvars>>

\* lines 181-182: log the command, build ProcData
S_Begin ==
    /\ pc = "start" /\ apc # "start"
    /\ log' = LogEvent(log, CmdEvent)
    /\ proc_data' = ProcData_init
    /\ pc' = "spawn"
    /\ UNCHANGED <<auxvars, cfgvars, exc, accumulated_output, line_buf, drains, inpos,
                   retcode_writes, pipes, childvars, asyncvars>>

\* lines 184-191, the executable cannot be started: Popen(...) raises before
\* the with block is entered
S_SpawnFails ==
    /\ pc = "spawn" /\ kind = "missing"
    /\ exc' = "FileNotFoundError"
    /\ pc' = "raised"
    /\ UNCHANGED <<auxvars, cfgvars, proc_data, log, accumulated_output, line_buf, drains, inpos,
                   retcode_writes, pipes, childvars, asyncvars>>

\* lines 184-191: Popen(...).__enter__
S_Popen ==
    /\ pc = "spawn" /\ kind # "missing"
    /\ pipes' = [s \in {"in", "out", "err"} |->
                   IF \/ s = "in" /\ input # NoInput
                      \/ s = "out" /\ stdout = PIPE
                      \/ s = "err" /\ stderr = PIPE
                   THEN NewPipe ELSE NoPipe]
    /\ child' = [child EXCEPT !.st = "running"]
    /\ pc' = IF input # NoInput THEN "input" ELSE AfterInput
    /\ UNCHANGED <<auxvars, cfgvars, exc, proc_data, log, accumulated_output, line_buf, drains,
                   inpos, retcode_writes, hist, held, asyncvars>>

\* Raise without a with block: the exception leaves exec_cmd at once
Raise_NoWith(e) == exc' = e /\ pc' = "raised"

\* an exception inside the with block: control goes to Popen.__exit__
Raise(e) == exc' = e /\ pc' = "exit"

\* S_WriteInput with the BrokenPipeError swallowed: the call goes on
S_WriteInput_Swallow ==
    /\ pc = "input"
    /\ LET rest == SubSeq(input[1], inpos + 1, Len(input[1]))
           room == PipeCap - Len(pipes["in"].buf)
           k == IF Len(rest) < room THEN Len(rest) ELSE room
       IN IF rest = <<>> \/ ~Running
          THEN pc' = AfterInput /\ UNCHANGED <<exc, pipes, inpos>>
          ELSE /\ room > 0
               /\ pipes' = [pipes EXCEPT !["in"].buf = @ \o SubSeq(rest, 1, k)]
               /\ inpos' = inpos + k
               /\ pc' = IF k = Len(rest) THEN AfterInput ELSE "input"
               /\ UNCHANGED exc
    /\ UNCHANGED <<auxvars, cfgvars, proc_data, log, accumulated_output, line_buf, drains,
                   retcode_writes, childvars, asyncvars>>

\* lines 192-194: proc_desc.stdin.write(input); proc_desc.stdin.flush().
\* Blocks while the pipe is full; BrokenPipeError once the child is gone.
S_WriteInput ==
    /\ pc = "input"
    /\ LET rest == SubSeq(input[1], inpos + 1, Len(input[1]))
           room == PipeCap - Len(pipes["in"].buf)
           k == IF Len(rest) < room THEN Len(rest) ELSE room
       IN IF rest = <<>>
          THEN pc' = AfterInput /\ UNCHANGED <<exc, pipes, inpos>>
          ELSE IF ~Running
          THEN Raise("BrokenPipeError") /\ UNCHANGED <<pipes, inpos>>
          ELSE /\ room > 0
               /\ pipes' = [pipes EXCEPT !["in"].buf = @ \o SubSeq(rest, 1, k)]
               /\ inpos' = inpos + k
               /\ pc' = IF k = Len(rest) THEN AfterInput ELSE "input"
               /\ UNCHANGED exc
    /\ UNCHANGED <<auxvars, cfgvars, proc_data, log, accumulated_output, line_buf, drains,
                   retcode_writes, childvars, asyncvars>>

\* _iterate_proc_output(stream, cls) on the pipe s, one blocking read at a
\* time; at end-of-data the accumulated bytes go through the ProcData setter
\* and control moves on to `next`.
iterate_proc_output(s, cls, next) ==
    /\ drains' = drains \cup {cls}
    /\ IF ~pipes[s].exists
       THEN \* the stream is None: `for raw_line in None`
            /\ Raise("TypeError")
            /\ UNCHANGED <<proc_data, log, accumulated_output, line_buf, pipes>>
       ELSE LET eof == pipes[s].buf = <<>>
                data == line_buf \o pipes[s].buf
                lines == IF eof
                         THEN IF data = <<>> THEN <<>> ELSE <<data>>
                         ELSE CompleteLines(data)
                bad == FirstBad(lines, 1)
                good == IF bad = 0 THEN lines ELSE SubSeq(lines, 1, bad - 1)
                acc == accumulated_output \o Concat(good)
            IN /\ eof => ~Running
               /\ log' = LogLines(log, cls, good)
               /\ pipes' = [pipes EXCEPT ![s].buf = <<>>]
               /\ IF bad # 0
                  THEN \* raw_line.decode() raises
                       /\ Raise("UnicodeDecodeError")
                       /\ accumulated_output' = acc
                       /\ line_buf' = <<>>
                       /\ UNCHANGED proc_data
                  ELSE IF eof
                  THEN /\ proc_data' = ProcData_set(proc_data, s, acc)
                       /\ accumulated_output' = <<>>
                       /\ line_buf' = <<>>
                       /\ pc' = next
                       /\ UNCHANGED exc
                  ELSE /\ accumulated_output' = acc
                       /\ line_buf' = Fragment(data)
                       /\ UNCHANGED <<pc, exc, proc_data>>

\* lines 195-198
S_DrainStdout ==
    /\ pc = "stdout"
    /\ iterate_proc_output("out", StdoutClass, AfterStdout)
    /\ UNCHANGED <<auxvars, cfgvars, inpos, retcode_writes, childvars, asyncvars>>

\* lines 199-200
S_DrainStderr ==
    /\ pc = "stderr"
    /\ iterate_proc_output("err", "STDERR", "exit")
    /\ UNCHANGED <<auxvars, cfgvars, inpos, retcode_writes, childvars, asyncvars>>

\* Popen.__exit__ (end of the with block, line 200/201), first half: close
\* proc_desc.stdout, proc_desc.stderr and proc_desc.stdin
S_Exit ==
    /\ pc = "exit"
    /\ pipes' = [s \in {"in", "out", "err"} |->
                   IF s = "in" THEN [pipes[s] EXCEPT !.open = FALSE]
                   ELSE [pipes[s] EXCEPT !.open = FALSE, !.buf = <<>>]]
    /\ pc' = "wait"
    /\ UNCHANGED <<auxvars, cfgvars, exc, proc_data, log, accumulated_output, line_buf, drains,
                   inpos, retcode_writes, childvars, asyncvars>>

\* S_Wait polling instead of waiting: it goes on while the child still runs
S_Wait_Poll ==
    /\ pc = "wait"
    /\ child' = [child EXCEPT !.reaped = (child.st = "exited")]
    /\ pc' = IF exc # "none" THEN "raised" ELSE "post"
    /\ UNCHANGED <<auxvars, cfgvars, exc, proc_data, log, accumulated_output, line_buf, drains,
                   inpos, retcode_writes, pipes, hist, held, asyncvars>>

\* Popen.__exit__, second half: self.wait() reaps the child; a pending
\* exception then propagates to the caller
S_Wait ==
    /\ pc = "wait"
    /\ child.st = "exited"
    /\ child' = [child EXCEPT !.reaped = TRUE]
    /\ pc' = IF exc # "none" THEN "raised" ELSE "post"
    /\ UNCHANGED <<auxvars, cfgvars, exc, proc_data, log, accumulated_output, line_buf, drains,
                   inpos, retcode_writes, pipes, hist, held, asyncvars>>

\* lines 201-204: store the return code, report, return
S_Finish ==
    /\ pc = "post"
    /\ LET pd == [proc_data EXCEPT !.retcode = child.code] IN
       /\ proc_data' = pd
       /\ retcode_writes' = retcode_writes + 1
       /\ IF ReporterRaises(pd)
          THEN /\ exc' = "UnicodeDecodeError" /\ pc' = "raised"
               /\ log' = LogEvent(log, [lvl |-> ERROR, kind |-> "returned", cls |-> "-",
                                        ty |-> "-", val |-> <<>>, code |-> pd.retcode])
          ELSE /\ log' = display_proc_result(log, pd)
               /\ pc' = "returned"
               /\ UNCHANGED exc
    /\ UNCHANGED <<auxvars, cfgvars, accumulated_output, line_buf, drains, inpos, pipes,
                   childvars, asyncvars>>

(* ---------------- exec_cmd_async ---------------- *)
\* The body has no await, so it runs to its end in one step of the event
\* loop.  asyncio.create_subprocess_exec(...) is called but not awaited:
\* proc_desc is a coroutine object, no process is started, and the first
\* attribute read of proc_desc (stdin, stdout, stderr or returncode) raises
\* AttributeError.
exec_cmd_async ==
    /\ apc = "start"
    /\ alog' = LogEvent(alog, CmdEvent)
    /\ aproc_data' = ProcData_init
    /\ aproc_desc' = "coroutine"
    /\ aexc' = "AttributeError"
    /\ apc' = "raised"
    /\ UNCHANGED <<auxvars, cfgvars, syncvars, pipes, childvars>>

Next ==
    \/ S_Begin \/ S_SpawnFails \/ S_Popen \/ S_WriteInput \/ S_DrainStdout \/ S_DrainStderr
    \/ S_Exit \/ S_Wait \/ S_Finish
    \/ ChildWrite \/ ChildExit \/ CatRead \/ CatEof
    \/ exec_cmd_async

Spec == Init /\ [][Next]_vars

(* ---------------- vocabulary of the properties ---------------- *)
Done == pc \in {"returned", "raised"}
ADone == apc \in {"returned", "raised"}

RECURSIVE WrittenTo(_, _)
\* the bytes of the writes h that went to destination t, in order
WrittenTo(h, t) ==
    IF h = <<>> THEN <<>>
    ELSE (IF Target(Head(h).stream) = t THEN <<Head(h).byte>> ELSE <<>>)
         \o WrittenTo(Tail(h), t)

RECURSIVE AllBytes(_)
\* the bytes of the writes h to either stream, in the order of the writes
AllBytes(h) == IF h = <<>> THEN <<>> ELSE <<Head(h).byte>> \o AllBytes(Tail(h))

\* exec_cmd is blocked reading the empty pipe s of a running child
ReaderBlockedOn(s) ==
    /\ pc = (IF s = "out" THEN "stdout" ELSE "stderr")
    /\ pipes[s].exists /\ pipes[s].buf = <<>> /\ Running

LineEvents(lg) == {lg[i] : i \in {j \in 1..Len(lg) : lg[j].kind = "line"}}
ErrorEvents(lg) == {lg[i] : i \in {j \in 1..Len(lg) : lg[j].lvl = ERROR}}

(* ---------------- C1 ---------------- *)
\* C1: with both streams captured, no reachable state of exec_cmd has the
\* child blocked writing one full pipe while the launcher is blocked reading
\* the other, empty one.
C1_NoDrainDeadlock ==
    ~ \E s \in {"out", "err"} : \E t \in {"out", "err"} :
        s # t /\ ChildBlockedOn(s) /\ ReaderBlockedOn(t)

(* ---------------- C2 ---------------- *)
\* C2: with input supplied to a child that echoes stdin to stdout until
\* end-of-input, exec_cmd never waits for stdout end-of-data while the child
\* is still waiting for more input, and a returned record holds the input.
C2_EchoCompletes ==
    kind = "cat" =>
        /\ ~(ReaderBlockedOn("out") /\ ChildAwaitsInput)
        /\ pc = "returned" => proc_data._stdout = input[1]

(* ---------------- C3 ---------------- *)
\* C3: a line drain is started only for a captured stream; with a stream
\* discarded or inherited the call does not raise on its account, logs no
\* line for it and leaves its buffer empty.
C3_DrainOnlyCaptured ==
    /\ (drains \cap {"STDOUT", "OUTPUT"} # {}) => stdout = PIPE
    /\ "STDERR" \in drains => stderr = PIPE
    /\ exc # "TypeError"
    /\ stdout # PIPE =>
        /\ proc_data._stdout = <<>>
        /\ \A e \in LineEvents(log) : e.cls \notin {"STDOUT", "OUTPUT"}
    /\ stderr # PIPE =>
        /\ proc_data._stderr = <<>>
        /\ \A e \in LineEvents(log) : e.cls # "STDERR"

(* ---------------- C4 ---------------- *)
\* C4: whatever the child's exit code, a launch call that ends has returned
\* its record, and the record's retcode is that exit code.
C4_ReturnsExitCode ==
    /\ Done => pc = "returned" /\ proc_data.retcode = child.code
    /\ ADone => apc = "returned"

(* ---------------- C5 ---------------- *)
\* C5: for every byte sequence the child writes to a captured stream, the
\* call ends with the record's buffer equal to exactly those bytes.  Stated
\* for launches without input and without a discarded stream, where only
\* the drains themselves decide the outcome.
C5_BuffersExact ==
    (Done /\ input = NoInput /\ stdout # DEVNULL /\ stderr # DEVNULL) =>
        /\ pc = "returned"
        /\ stdout = PIPE => proc_data._stdout = WrittenTo(hist, "out")
        /\ stderr = PIPE => proc_data._stderr = WrittenTo(hist, "err")

(* ---------------- C6 ---------------- *)
\* what C6 says of the merged mode apart from the content of stdout
C6_MergedShape ==
    /\ proc_data._stderr = <<>> /\ aproc_data._stderr = <<>>
    /\ "STDERR" \notin drains
    /\ \A e \in LineEvents(log) \cup LineEvents(alog) : e.cls = "OUTPUT"

\* C6 as stated: with stderr merged into stdout the stderr buffer is always
\* empty, no stderr drain starts, every logged line is classified OUTPUT,
\* and the returned record's stdout holds every byte the child wrote to
\* either stream, in order.
C6_MergedAsStated ==
    stderr = STDOUT =>
        /\ C6_MergedShape
        /\ pc = "returned" => proc_data._stdout = AllBytes(hist)

\* C6 amended: the same, the content of stdout being claimed only when
\* stdout is captured.
C6_MergedCaptured ==
    stderr = STDOUT =>
        /\ C6_MergedShape
        /\ (pc = "returned" /\ stdout = PIPE) => proc_data._stdout = AllBytes(hist)

\* a merged launch returned bytes of both streams, logged as OUTPUT
C6_Witness ==
    /\ stderr = STDOUT /\ stdout = PIPE /\ pc = "returned"
    /\ \E i \in 1..Len(hist) : hist[i].stream = "out"
    /\ \E i \in 1..Len(hist) : hist[i].stream = "err"
    /\ proc_data._stdout = AllBytes(hist)
    /\ \E e \in LineEvents(log) : e.cls = "OUTPUT"

(* ---------------- C7 ---------------- *)
\* C7: for the same configuration, exec_cmd and exec_cmd_async end the same
\* way: the same failure, or equal records, and the same log events.
C7_LaunchersAgree ==
    (Done /\ ADone) =>
        /\ pc = apc /\ exc = aexc
        /\ proc_data = aproc_data
        /\ log = alog

(* ---------------- C8 ---------------- *)
\* C8: retcode is 0 until its single write; once written, the child has
\* exited and been reaped, every drain the call starts was started and has
\* stored its bytes, and retcode is the child's exit code; a record is
\* returned, and an error is reported, only after that write.
C8_RetcodeOnce ==
    /\ retcode_writes <= 1
    /\ retcode_writes = 0 => proc_data.retcode = 0
    /\ retcode_writes = 1 =>
        /\ child.st = "exited" /\ child.reaped
        /\ proc_data.retcode = child.code
        /\ DrainsStdout => StdoutClass \in drains /\ proc_data._stdout = WrittenTo(hist, "out")
        /\ DrainsStderr => "STDERR" \in drains /\ proc_data._stderr = WrittenTo(hist, "err")
    /\ pc = "returned" => retcode_writes = 1
    /\ \A e \in ErrorEvents(log) :
        retcode_writes = 1 /\ (e.kind = "returned" => e.code = child.code)
    /\ aproc_data.retcode = 0 /\ ErrorEvents(alog) = {}

\* a call returned exit code 7 with captured bytes and reported it
C8_Witness ==
    /\ pc = "returned" /\ proc_data.retcode = 7
    /\ stdout = PIPE /\ stderr = PIPE
    /\ proc_data._stdout # <<>> /\ proc_data._stderr # <<>>
    /\ \E e \in ErrorEvents(log) : e.kind = "returned" /\ e.code = 7

(* ---------------- C9 ---------------- *)
\* C9: when a launch call that spawned a child ends, by returning or by
\* raising, every pipe to the child is closed and the child is reaped.
C9_Released ==
    /\ (Done /\ child.st # "none") =>
        /\ \A s \in {"in", "out", "err"} : ~pipes[s].open
        /\ child.st = "exited" /\ child.reaped
    /\ ADone => aproc_desc # "process"

\* a drain raised after the child was spawned with all three pipes
C9_Witness ==
    /\ pc = "raised" /\ exc = "UnicodeDecodeError"
    /\ \A s \in {"in", "out", "err"} : pipes[s].exists /\ ~pipes[s].open
    /\ child.reaped

(* ---------------- _display_proc_result on its own ---------------- *)
\* the verbosities: DEBUG, INFO, WARNING, ERROR, CRITICAL
ReportLevels == {DEBUG, INFO, 30, ERROR, 50}
\* exit statuses: killed by SIGPIPE, success, failures
ReportCodes == {-13, 0, 1, 7}
\* buffers a drain can have stored (every line of them decodes)
ReportBuffers == {<<>>, <<97>>, <<97, 10, 97>>}

\* a ProcData as exec_cmd hands it to the reporter, at any verbosity
InitReport ==
    /\ AuxIdle
    /\ input = NoInput /\ stdout = PIPE /\ stderr = PIPE
    /\ ignore_retcode \in BOOLEAN
    /\ decode_output \in BOOLEAN
    /\ level \in ReportLevels
    /\ kind = "script" /\ prog = <<>>
    /\ pc = "post" /\ exc = "none"
    /\ \E o \in ReportBuffers : \E e \in ReportBuffers : \E c \in ReportCodes :
          proc_data = [_stdout |-> o, _stderr |-> e, retcode |-> c]
    /\ log = <<>>
    /\ accumulated_output = <<>> /\ line_buf = <<>>
    /\ drains = {} /\ inpos = 0 /\ retcode_writes = 1
    /\ pipes = [s \in {"in", "out", "err"} |-> NoPipe]
    /\ child = NoChild /\ hist = <<>> /\ held = <<>>
    /\ apc = "idle" /\ aexc = "none"
    /\ aproc_data = ProcData_init
    /\ alog = <<>> /\ aproc_desc = "unset"

\* line 203: _display_proc_result(args, ignore_retcode, proc_data)
R_Report ==
    /\ pc = "post"
    /\ log' = display_proc_result(log, proc_data)
    /\ pc' = "returned"
    /\ UNCHANGED <<auxvars, cfgvars, exc, proc_data, accumulated_output, line_buf, drains,
                   inpos, retcode_writes, pipes, childvars, asyncvars>>

SpecReport == InitReport /\ [][R_Report]_vars

(* ---------------- C12 ---------------- *)
ReturnedEvents(lg) == {i \in 1..Len(lg) : lg[i].kind = "returned"}

\* C12: after the reporter ran, if reporting is suppressed or the exit code
\* is 0 the log holds no error-level event; otherwise it holds exactly one
\* error-level event naming the command and the exit code, and that event
\* carries the record's exit code.
C12_OneFailureEvent ==
    pc = "returned" =>
        IF ignore_retcode \/ proc_data.retcode = 0
        THEN ErrorEvents(log) = {}
        ELSE /\ Cardinality(ReturnedEvents(log)) = 1
             /\ \A i \in ReturnedEvents(log) :
                    log[i].lvl = ERROR /\ log[i].code = proc_data.retcode

\* a failure was reported at a coarse verbosity, next to aggregated output
C12_Witness ==
    /\ pc = "returned" /\ ~ignore_retcode /\ proc_data.retcode = 7 /\ level = INFO
    /\ Cardinality(ReturnedEvents(log)) = 1
    /\ Len(log) = 3

(* ---------------- C13 ---------------- *)
Aggregates(lg, which) ==
    {i \in 1..Len(lg) : lg[i].kind = "aggregate" /\ lg[i].cls = which}

\* the aggregate of one buffer is logged as a single event holding the whole
\* buffer as its accessor gives it
OneAggregate(which, buf) ==
    /\ Cardinality(Aggregates(log, which)) = 1
    /\ \A i \in Aggregates(log, which) :
           /\ log[i].val = ProcData_get(proc_data, buf).val
           /\ log[i].ty = ProcData_get(proc_data, buf).ty

\* no record reaches the log output both as a drained line and as aggregate
NoDoubleLogging ==
    ~ (/\ \E i \in 1..Len(Emitted(log)) : Emitted(log)[i].kind = "line"
       /\ \E i \in 1..Len(Emitted(log)) : Emitted(log)[i].kind = "aggregate")

\* C13 as stated: on a reported failure at a verbosity coarser than DEBUG
\* the reporter logs the whole stdout as one event and, only if non-empty,
\* the whole stderr as one event; at DEBUG it logs neither; no output is
\* logged both per line and in aggregate.
C13_AsStated ==
    /\ (pc = "returned" /\ Reports(proc_data)) =>
        IF level > DEBUG
        THEN /\ OneAggregate("stdout", "out")
             /\ IF proc_data._stderr # <<>> THEN OneAggregate("stderr", "err")
                ELSE Aggregates(log, "stderr") = {}
        ELSE Aggregates(log, "stdout") = {} /\ Aggregates(log, "stderr") = {}
    /\ NoDoubleLogging

\* C13 amended: the same, stdout too being logged only if non-empty.
C13_Aggregates ==
    /\ (pc = "returned" /\ Reports(proc_data)) =>
        IF level > DEBUG
        THEN /\ IF proc_data._stdout # <<>> THEN OneAggregate("stdout", "out")
                ELSE Aggregates(log, "stdout") = {}
             /\ IF proc_data._stderr # <<>> THEN OneAggregate("stderr", "err")
                ELSE Aggregates(log, "stderr") = {}
        ELSE Aggregates(log, "stdout") = {} /\ Aggregates(log, "stderr") = {}
    /\ NoDoubleLogging

\* a failure reported at INFO with output on stdout and none on stderr
C13_Witness ==
    /\ pc = "returned" /\ Reports(proc_data) /\ level = INFO
    /\ stdout = PIPE /\ stderr = PIPE
    /\ proc_data._stdout # <<>> /\ proc_data._stderr = <<>>
    /\ OneAggregate("stdout", "out") /\ Aggregates(log, "stderr") = {}

(* ---------------- C14 ---------------- *)
\* C14: whatever bytes the child writes and at every verbosity, draining
\* raises no decoding error, and a call that ends after draining has stored
\* all the raw bytes of each captured stream in its record.
C14_DecodeDeferred ==
    /\ exc # "UnicodeDecodeError"
    /\ (Done /\ input = NoInput /\ stdout = PIPE /\ stderr \in {PIPE, None, STDOUT}) =>
           proc_data._stdout = WrittenTo(hist, "out")

(* ---------------- the two line drains on one stream ---------------- *)
\* length of the streams the drains are compared on
MaxStream == 3

\* the lines iteration over a stream holding bs yields: the terminated
\* lines, then the unterminated rest if there is one
AllLines(bs) ==
    CompleteLines(bs) \o (IF Fragment(bs) = <<>> THEN <<>> ELSE <<Fragment(bs)>>)

\* _iterate_proc_output(stream, cls) on a stream holding bs, run to its end:
\* what it raises, what it returns, what it logs
iterate_proc_output_all(bs, cls) ==
    LET lines == AllLines(bs)
        bad == FirstBad(lines, 1)
        good == IF bad = 0 THEN lines ELSE SubSeq(lines, 1, bad - 1)
    IN [exc |-> IF bad = 0 THEN "none" ELSE "UnicodeDecodeError",
        ret |-> IF bad = 0 THEN Concat(lines) ELSE <<>>,
        log |-> LogLines(<<>>, cls, good)]

\* _iterate_proc_output_async(stream, cls) on a stream holding bs, run to
\* its end.  `accumulated_output: b''` is an annotation, not an assignment:
\* the local is unbound, so `accumulated_output += raw_line` raises on the
\* first line (after that line was decoded and logged), and on an empty
\* stream `return accumulated_output` raises.
iterate_proc_output_async(bs, cls) ==
    LET lines == AllLines(bs) IN
    IF lines = <<>>
    THEN [exc |-> "UnboundLocalError", ret |-> <<>>, log |-> <<>>]
    ELSE IF DecodeFails(lines[1])
    THEN [exc |-> "UnicodeDecodeError", ret |-> <<>>, log |-> <<>>]
    ELSE [exc |-> "UnboundLocalError", ret |-> <<>>,
          log |-> LogLines(<<>>, cls, <<lines[1]>>)]

Classifiers == {"OUTPUT", "STDOUT", "STDERR"}

InitDrain ==
    /\ LaunchIdle
    /\ grp = <<>> /\ setr = <<>> /\ thr = <<>>
    /\ \E bs \in SeqsUpTo(Bytes, MaxStream) : \E cls \in Classifiers :
          drn = [stream |-> bs, cls |-> cls, sync |-> <<>>, async |-> <<>>]

\* the blocking drain is run on the stream
D_Sync ==
    /\ drn # <<>> /\ drn.sync = <<>>
    /\ drn' = [drn EXCEPT !.sync = <<iterate_proc_output_all(drn.stream, drn.cls)>>]
    /\ UNCHANGED <<launchvars, grp, setr, thr>>

\* the suspend-capable drain is run on a stream with the same content
D_Async ==
    /\ drn # <<>> /\ drn.async = <<>>
    /\ drn' = [drn EXCEPT !.async = <<iterate_proc_output_async(drn.stream, drn.cls)>>]
    /\ UNCHANGED <<launchvars, grp, setr, thr>>

SpecDrain == InitDrain /\ [][D_Sync \/ D_Async]_vars

(* ---------------- C15 ---------------- *)
\* C15: on the same stream content, the empty stream and a stream ending in
\* an unterminated fragment included, the two drains end the same way and
\* return the same bytes; on the empty stream both return without error.
C15_DrainsAgree ==
    (drn # <<>> /\ drn.sync # <<>> /\ drn.async # <<>>) =>
        /\ drn.sync[1].exc = drn.async[1].exc
        /\ drn.sync[1].ret = drn.async[1].ret
        /\ drn.stream = <<>> => drn.async[1].exc = "none" /\ drn.async[1].ret = <<>>

(* ---------------- C16 ---------------- *)
\* C16: when the child cannot be spawned, or the supplied input cannot be
\* written in full, the call ends by raising that failure: it returns no
\* record, line 201 is never reached and the reporter logs nothing.
C16_FailurePropagates ==
    /\ (Done /\ kind = "missing") =>
          /\ pc = "raised" /\ exc = "FileNotFoundError"
          /\ child.st = "none"
    /\ (Done /\ kind # "missing" /\ input # NoInput /\ inpos < Len(input[1])) =>
          /\ pc = "raised" /\ exc = "BrokenPipeError"
    /\ (Done /\ exc \in {"FileNotFoundError", "BrokenPipeError"}) =>
          /\ pc = "raised"
          /\ retcode_writes = 0
          /\ ReturnedEvents(log) = {}
          /\ Aggregates(log, "stdout") = {} /\ Aggregates(log, "stderr") = {}

\* the child left before the input was written in full, after a part of it
\* had gone into the pipe
C16_Witness ==
    /\ pc = "raised" /\ exc = "BrokenPipeError"
    /\ input # NoInput /\ inpos > 0 /\ inpos < Len(input[1])
    /\ child.reaped

(* ---------------- C17 ---------------- *)
ExecutingEvents(lg) == {i \in 1..Len(lg) : lg[i].kind = "executing"}

\* C17: a call logs the command line exactly once, as its first event and
\* before the child exists; line and failure events come after it, and
\* failure events only once the child has exited.
C17_ExecutingFirst ==
    /\ pc = "start" => log = <<>>
    /\ pc # "start" => /\ ExecutingEvents(log) = {1}
                       /\ log[1] = CmdEvent
    /\ child.st # "none" => ExecutingEvents(log) = {1}
    /\ \A i \in 1..Len(log) :
          log[i].kind \in {"line", "returned", "aggregate"} => i > 1
    /\ \A i \in 1..Len(log) :
          log[i].kind \in {"returned", "aggregate"} => child.st = "exited"
    /\ ADone => alog = <<CmdEvent>>

\* a failing command whose output line was logged: command line, line,
\* failure, in that order
C17_Witness ==
    /\ pc = "returned"
    /\ Len(log) >= 3
    /\ log[1].kind = "executing" /\ log[2].kind = "line"
    /\ log[Len(log)].lvl = ERROR

(* ---------------- grouper ---------------- *)
\* longest sequence given to grouper, and largest chunk size
MaxLen == 4
MaxN == 3

FILL == "FILL"
STRICT == "STRICT"
IGNORE == "IGNORE"
REMAINDER == "REMAINDER"
GrouperIncomplete == {FILL, STRICT, IGNORE, REMAINDER}

Elems == {"A", "B"}
FillValues == {"None", "x"}

\* args = [iter(i)] * n is one iterator n times: the values the n successive
\* next() calls of one output tuple get before the iterator is exhausted,
\* when pos elements were consumed before
Taken(i, pos, n) ==
    SubSeq(i, pos + 1, IF pos + n <= Len(i) THEN pos + n ELSE Len(i))

\* the slice i[a:] for a <= 0, as Python computes it (i[-0:] is i[0:])
SliceFrom(i, a) ==
    LET start == IF a < 0 THEN (IF Len(i) + a < 0 THEN 0 ELSE Len(i) + a) ELSE 0
    IN SubSeq(i, start + 1, Len(i))

\* the remainder iterator without the `len(i) % n != 0` test
Remainder_NoGuard(i, n) == <<SliceFrom(i, -(Len(i) % n))>>

\* line 357: the items of the remainder iterator
Remainder(i, n) ==
    IF Len(i) % n # 0 THEN <<SliceFrom(i, -(Len(i) % n))>> ELSE <<>>

InitGrouper ==
    /\ LaunchIdle
    /\ drn = <<>> /\ setr = <<>> /\ thr = <<>>
    /\ \E i \in SeqsUpTo(Elems, MaxLen), n \in 1..MaxN,
          incomplete \in GrouperIncomplete, fillvalue \in FillValues :
          grp = [i |-> i, n |-> n, incomplete |-> incomplete, fillvalue |-> fillvalue,
                 pos |-> 0, st |-> "zip", out |-> <<>>]

\* next() on itertools.zip_longest(*args, fillvalue=fillvalue)
G_ZipLongest ==
    /\ grp.st = "zip" /\ grp.incomplete = FILL
    /\ LET t == Taken(grp.i, grp.pos, grp.n) IN
       grp' = IF t = <<>>
              THEN [grp EXCEPT !.st = "done"]
              ELSE [grp EXCEPT !.pos = grp.pos + Len(t),
                               !.out = Append(@, t \o [k \in 1..(grp.n - Len(t)) |-> grp.fillvalue])]
    /\ UNCHANGED <<launchvars, drn, setr, thr>>

\* next() on zip(*args, strict=True)
G_ZipStrict ==
    /\ grp.st = "zip" /\ grp.incomplete = STRICT
    /\ LET t == Taken(grp.i, grp.pos, grp.n) IN
       grp' = IF t = <<>> THEN [grp EXCEPT !.st = "done"]
              ELSE IF Len(t) < grp.n
              THEN [grp EXCEPT !.pos = grp.pos + Len(t), !.st = "ValueError"]
              ELSE [grp EXCEPT !.pos = grp.pos + Len(t), !.out = Append(@, t)]
    /\ UNCHANGED <<launchvars, drn, setr, thr>>

\* next() on zip(*args): a tuple the iterator runs out in is dropped.  With
\* REMAINDER the chain then goes on to the remainder iterator.
G_Zip ==
    /\ grp.st = "zip" /\ grp.incomplete \in {IGNORE, REMAINDER}
    /\ LET t == Taken(grp.i, grp.pos, grp.n) IN
       grp' = IF Len(t) < grp.n
              THEN [grp EXCEPT !.pos = grp.pos + Len(t),
                               !.st = IF grp.incomplete = REMAINDER THEN "remainder" ELSE "done"]
              ELSE [grp EXCEPT !.pos = grp.pos + Len(t), !.out = Append(@, t)]
    /\ UNCHANGED <<launchvars, drn, setr, thr>>

\* itertools.chain(zip(*args), remainder), second iterator
G_Remainder ==
    /\ grp.st = "remainder"
    /\ grp' = [grp EXCEPT !.out = @ \o Remainder(grp.i, grp.n), !.st = "done"]
    /\ UNCHANGED <<launchvars, drn, setr, thr>>

SpecGrouper == InitGrouper /\ [][G_ZipLongest \/ G_ZipStrict \/ G_Zip \/ G_Remainder]_vars

(* ---------------- C18 ---------------- *)
\* the runs of n consecutive elements of i
FullBlocks(i, n) == [j \in 1..(Len(i) \div n) |-> SubSeq(i, (j - 1) * n + 1, j * n)]
\* the elements of i after its last full block
LastPartial(i, n) == SubSeq(i, Len(i) - (Len(i) % n) + 1, Len(i))

GrouperEnded == grp.st \in {"done", "ValueError"}

\* C18: the chunks are the consecutive runs of n elements, in order; a
\* partial last block is padded (FILL), raises ValueError after the full
\* blocks (STRICT), is dropped (IGNORE) or is the last chunk (REMAINDER,
\* whose chunks concatenate to i); without one every mode yields the full
\* blocks and none raises.
C18_GrouperModes ==
    LET i == grp.i
        n == grp.n
        r == Len(i) % n
        full == FullBlocks(i, n)
    IN /\ \A j \in 1..Len(grp.out) : j <= Len(full) => grp.out[j] = full[j]
       /\ Len(grp.out) <= Len(full) + 1
       /\ GrouperEnded =>
            /\ r = 0 => grp.out = full /\ grp.st = "done"
            /\ (r # 0 /\ grp.incomplete = FILL) =>
                  /\ grp.st = "done"
                  /\ grp.out = Append(full, LastPartial(i, n) \o [k \in 1..(n - r) |-> grp.fillvalue])
            /\ (r # 0 /\ grp.incomplete = STRICT) =>
                  grp.st = "ValueError" /\ grp.out = full
            /\ (r # 0 /\ grp.incomplete = IGNORE) =>
                  grp.st = "done" /\ grp.out = full
            /\ (r # 0 /\ grp.incomplete = REMAINDER) =>
                  grp.st = "done" /\ grp.out = Append(full, LastPartial(i, n))
            /\ grp.incomplete = REMAINDER => Concat(grp.out) = i

\* REMAINDER on four elements by threes: one full block and the last element
C18_Witness ==
    /\ grp.st = "done" /\ grp.incomplete = REMAINDER
    /\ Len(grp.i) = 4 /\ grp.n = 3
    /\ Len(grp.out) = 2 /\ Len(grp.out[2]) = 1

(* ---------------- the ProcData setters ---------------- *)
\* number of assignments made to one ProcData
MaxAssign == 3

Assigned == {<<>>, <<97>>, <<98, 10>>}

InitSetter ==
    /\ LaunchIdle
    /\ drn = <<>> /\ grp = <<>> /\ thr = <<>>
    /\ setr = [pd |-> ProcData_init, out |-> <<>>, err |-> <<>>]

\* proc_data.stdout = lines
P_SetStdout ==
    /\ Len(setr.out) + Len(setr.err) < MaxAssign
    /\ \E lines \in Assigned :
          setr' = [setr EXCEPT !.pd = ProcData_set(@, "out", lines),
                               !.out = Append(@, lines)]
    /\ UNCHANGED <<launchvars, drn, grp, thr>>

\* proc_data.stderr = lines
P_SetStderr ==
    /\ Len(setr.out) + Len(setr.err) < MaxAssign
    /\ \E lines \in Assigned :
          setr' = [setr EXCEPT !.pd = ProcData_set(@, "err", lines),
                               !.err = Append(@, lines)]
    /\ UNCHANGED <<launchvars, drn, grp, thr>>

SpecSetter == InitSetter /\ [][P_SetStdout \/ P_SetStderr]_vars

(* ---------------- C19 ---------------- *)
\* C19: after any sequence of assignments through the setters each raw
\* buffer is the concatenation of the values assigned to it.
C19_SetterAppends ==
    /\ setr.pd._stdout = Concat(setr.out)
    /\ setr.pd._stderr = Concat(setr.err)

(* ---------------- thr_exec ---------------- *)
\* most argument tuples given to thr_exec, and largest max_workers
MaxTasks == 3
MaxWorkers == 2

\* args: one entry per argument tuple, TRUE when func raises an Exception
\* for it
InitThr ==
    /\ LaunchIdle
    /\ drn = <<>> /\ grp = <<>> /\ setr = <<>>
    /\ \E args \in SeqsUpTo(BOOLEAN, MaxTasks), max_workers \in 1..MaxWorkers :
          thr = [args |-> args, max_workers |-> max_workers,
                 pc |-> "submit", submitted |-> 0,
                 work_queue |-> <<>>, num_threads |-> 0, idle_semaphore |-> 0,
                 w |-> [t \in 1..Len(args) |-> "unspawned"],
                 cur |-> [t \in 1..Len(args) |-> 0],
                 runs |-> [k \in 1..Len(args) |-> 0],
                 finished |-> {}, collected |-> {}, log |-> <<>>]

\* pool_exec.submit(func, *al) for the next al: the work item is queued; a
\* thread is started unless one is idle or max_workers threads exist
T_Submit ==
    /\ thr.pc = "submit" /\ thr.submitted < Len(thr.args)
    /\ LET k == thr.submitted + 1
           q == [thr EXCEPT !.submitted = k, !.work_queue = Append(@, k)]
       IN thr' = IF thr.idle_semaphore > 0
                 THEN [q EXCEPT !.idle_semaphore = @ - 1]
                 ELSE IF thr.num_threads < thr.max_workers
                 THEN [q EXCEPT !.num_threads = @ + 1,
                                !.w[thr.num_threads + 1] = "ready"]
                 ELSE q
    /\ UNCHANGED <<launchvars, drn, grp, setr>>

\* every al is submitted: the main thread goes on to as_completed
T_Submitted ==
    /\ thr.pc = "submit" /\ thr.submitted = Len(thr.args)
    /\ thr' = [thr EXCEPT !.pc = "collect"]
    /\ UNCHANGED <<launchvars, drn, grp, setr>>

\* a worker thread takes the oldest work item and calls func(*al)
W_Get ==
    /\ \E t \in 1..thr.num_threads :
          /\ thr.w[t] \in {"ready", "waiting"}
          /\ thr.work_queue # <<>>
          /\ LET k == Head(thr.work_queue) IN
             thr' = [thr EXCEPT !.work_queue = Tail(@), !.w[t] = "running",
                                !.cur[t] = k, !.runs[k] = @ + 1]
    /\ UNCHANGED <<launchvars, drn, grp, setr>>

\* a worker thread finds the queue empty: it releases the idle semaphore and
\* blocks on the queue
W_Idle ==
    /\ \E t \in 1..thr.num_threads :
          /\ thr.w[t] = "ready" /\ thr.work_queue = <<>>
          /\ thr' = [thr EXCEPT !.w[t] = "waiting", !.idle_semaphore = @ + 1]
    /\ UNCHANGED <<launchvars, drn, grp, setr>>

\* func(*al) returns or raises in its worker thread: the future is set
W_Finish ==
    /\ \E t \in 1..thr.num_threads :
          /\ thr.w[t] = "running"
          /\ thr' = [thr EXCEPT !.w[t] = "ready", !.cur[t] = 0,
                                !.finished = @ \cup {thr.cur[t]}]
    /\ UNCHANGED <<launchvars, drn, grp, setr>>

\* T_Collect without the try: the exception of a task leaves thr_exec
T_Collect_Reraise ==
    /\ thr.pc = "collect"
    /\ \E k \in thr.finished \ thr.collected :
          thr' = [thr EXCEPT !.collected = @ \cup {k},
                             !.pc = IF thr.args[k] THEN "raised" ELSE @]
    /\ UNCHANGED <<launchvars, drn, grp, setr>>

\* lines 367-371: as_completed yields a finished future; future.result()
\* re-raises what func raised, which is logged
T_Collect ==
    /\ thr.pc = "collect"
    /\ \E k \in thr.finished \ thr.collected :
          thr' = [thr EXCEPT !.collected = @ \cup {k},
                             !.log = IF thr.args[k]
                                     THEN Append(@, [lvl |-> ERROR, task |-> k])
                                     ELSE @]
    /\ UNCHANGED <<launchvars, drn, grp, setr>>

\* as_completed is exhausted; the with block ends with shutdown(wait=True),
\* which joins the worker threads
T_Shutdown ==
    /\ thr.pc = "collect"
    /\ thr.collected = 1..Len(thr.args)
    /\ \A t \in 1..thr.num_threads : thr.w[t] # "running"
    /\ thr' = [thr EXCEPT !.pc = "returned",
                          !.w = [t \in 1..Len(thr.args) |->
                                    IF t <= thr.num_threads THEN "exited" ELSE "unspawned"]]
    /\ UNCHANGED <<launchvars, drn, grp, setr>>

NextThr ==
    T_Submit \/ T_Submitted \/ W_Get \/ W_Idle \/ W_Finish \/ T_Collect \/ T_Shutdown

SpecThr == InitThr /\ [][NextThr]_vars

(* ---------------- C20 ---------------- *)
InProgress == {t \in 1..Len(thr.args) : thr.w[t] = "running"}
Failing == {k \in 1..Len(thr.args) : thr.args[k]}

\* C20: func runs at most once per argument tuple and at most max_workers
\* invocations are in progress; thr_exec never raises, does not stop before
\* it has returned, and returns only when every invocation has run once and
\* finished, with one error event per failing invocation.
C20_AllRunOnce ==
    /\ \A k \in 1..Len(thr.args) : thr.runs[k] <= 1
    /\ Cardinality(InProgress) <= thr.max_workers
    /\ thr.pc # "raised"
    /\ thr.pc # "returned" => ENABLED NextThr
    /\ thr.pc = "returned" =>
          /\ \A k \in 1..Len(thr.args) : thr.runs[k] = 1
          /\ thr.finished = 1..Len(thr.args)
          /\ InProgress = {}
          /\ {thr.log[j].task : j \in 1..Len(thr.log)} = Failing
          /\ Len(thr.log) = Cardinality(Failing)
          /\ \A j \in 1..Len(thr.log) : thr.log[j].lvl = ERROR

\* three tasks on two workers, the first one failing: all ran, one error
C20_Witness ==
    /\ thr.pc = "returned"
    /\ Len(thr.args) = 3 /\ thr.max_workers = 2 /\ thr.num_threads = 2
    /\ thr.args[1] /\ ~thr.args[2]
    /\ \A k \in 1..3 : thr.runs[k] = 1
    /\ Len(thr.log) = 1

====
